---------------------------- MODULE Spec2Model ----------------------------
(***************************************************************************)
(* A model of the c33d render server: the websocket session handler       *)
(* (routes.rs), the world upload (world.rs), the voxel DDA ray tracer and  *)
(* the row-parallel frame renderer (ray.rs), the texture lookup            *)
(* (texture.rs) and the teletext encoder (buffer.rs).                      *)
(*                                                                         *)
(* Numbers.  An f64 coordinate is modelled as an exact rational with the   *)
(* fixed denominator Den (an integer count of 1/Den units).  A DDA         *)
(* distance is the triple <<h, n, d>> standing for                         *)
(*            1e30 * (h / Den)  +  n / d            (d > 0)                *)
(* so that the 1e30 sentinel of get_dists is kept apart from ordinary      *)
(* distances; distances are compared lexicographically, which is the real  *)
(* order as long as n/d stays below 1e30/Den, as it does in every world    *)
(* this model builds.                                                      *)
(***************************************************************************)
EXTENDS Integers, Sequences, FiniteSets, TLC

(***************************************************************************)
(* Bounds of the model.                                                    *)
(***************************************************************************)
\* The monitor, scaled down from the 162 x 79 cells of buffer.rs.
MON_WIDTH == 2
MON_HEIGHT == 1
\* Client-supplied offsets and camera positions are multiples of 1/Sub.
Sub == 2
\* The number of 1e30 additions after which a further f64 addition of 1e30
\* is absorbed (x + 1e30 = x); 2^53 in IEEE double arithmetic.
AbsorbAt == 3
\* The number of messages a session's transport delivers.
MaxMsgs == 3
\* The number of row workers of the thread pool.
NumWorkers == 2
\* The largest palette index a tile pixel of the encoder check takes.
MaxTileColour == 2

(***************************************************************************)
(* buffer.rs: dimensions.                                                  *)
(***************************************************************************)
BUF_WIDTH == MON_WIDTH * 2
BUF_HEIGHT == MON_HEIGHT * 3
SIZE == BUF_WIDTH * BUF_HEIGHT

\* texture.rs
DEFAULT_COLOUR == 9

Den == BUF_WIDTH * BUF_HEIGHT * Sub

Axes == 1..3

(***************************************************************************)
(* world.rs                                                                *)
(***************************************************************************)
Blocks == {"Air", "Dirt", "Grass", "Stone", "Water"}

\* Block::parse: None is modelled as the string "None".
BlockParse(c) ==
  CASE c = " " -> "Air"
    [] c = "d" -> "Dirt"
    [] c = "g" -> "Grass"
    [] c = "s" -> "Stone"
    [] c = "w" -> "Water"
    [] OTHER -> "None"

\* World::new
WorldNew(width, height, depth) ==
  [width |-> width, height |-> height, depth |-> depth,
   blocks |-> [i \in 1..(width * height * depth) |-> "Air"]]

\* The linearisation shared by World::get and World::set (0-based).
WorldIndex(w, x, y, z) == x + y * w.width + z * w.height * w.width

InWorld(w, x, y, z) == x < w.width /\ y < w.height /\ z < w.depth

\* World::get.  The result is "Panic" when the debug assertion or the
\* slice bounds check fails; a release build with an index inside the
\* vector returns whatever cell the linearisation names.
WorldGet(w, x, y, z, dbg) ==
  IF dbg /\ ~InWorld(w, x, y, z) THEN "Panic"
  ELSE IF WorldIndex(w, x, y, z) >= Len(w.blocks) THEN "Panic"
  ELSE w.blocks[WorldIndex(w, x, y, z) + 1]

\* World::set.  ok is FALSE when the call panics.
WorldSet(w, x, y, z, block, dbg) ==
  IF dbg /\ ~InWorld(w, x, y, z) THEN [ok |-> FALSE, world |-> w]
  ELSE IF WorldIndex(w, x, y, z) >= Len(w.blocks) THEN [ok |-> FALSE, world |-> w]
  ELSE [ok |-> TRUE,
        world |-> [w EXCEPT !.blocks[WorldIndex(w, x, y, z) + 1] = block]]

\* The cells of an upload in the order the three nested loops of
\* World::deserialize visit them: <<x, y, z, cell>>, 0-based.
RECURSIVE RowCells(_, _, _, _)
RowCells(row, x, y, z) ==
  IF x > Len(row) THEN <<>>
  ELSE <<<<x - 1, y, z, row[x]>>>> \o RowCells(row, x + 1, y, z)

RECURSIVE PlaneCells(_, _, _)
PlaneCells(plane, y, z) ==
  IF z > Len(plane) THEN <<>>
  ELSE RowCells(plane[z], 1, y, z - 1) \o PlaneCells(plane, y, z + 1)

RECURSIVE ContentCells(_, _)
ContentCells(contents, y) ==
  IF y > Len(contents) THEN <<>>
  ELSE PlaneCells(contents[y], y - 1, 1) \o ContentCells(contents, y + 1)

\* The body of the loops: parse each cell and set it; stop at the first
\* unknown character (Err) or the first failing set (panic).
RECURSIVE FillWorld(_, _, _, _)
FillWorld(w, cells, i, dbg) ==
  IF i > Len(cells) THEN [kind |-> "ok", world |-> w]
  ELSE IF BlockParse(cells[i][4]) = "None" THEN [kind |-> "err"]
  ELSE LET w2 == WorldSet(w, cells[i][1], cells[i][2], cells[i][3],
                          BlockParse(cells[i][4]), dbg)
       IN  IF ~w2.ok THEN [kind |-> "panic"]
           ELSE FillWorld(w2.world, cells, i + 1, dbg)

\* World::deserialize of a Vec<Vec<String>>; a string is a sequence of
\* one-character strings.  contents[0][0] panics on an empty upload.
Deserialize(contents, dbg) ==
  IF Len(contents) = 0 THEN [kind |-> "panic"]
  ELSE IF Len(contents[1]) = 0 THEN [kind |-> "panic"]
  ELSE FillWorld(WorldNew(Len(contents[1][1]), Len(contents), Len(contents[1])),
                 ContentCells(contents, 1), 1, dbg)

(***************************************************************************)
(* ray.rs: get_dists, outside, trace                                       *)
(***************************************************************************)
Abs(n) == IF n < 0 THEN -n ELSE n

\* f64::trunc followed by `as i64`, on a count of 1/Den units.
Trunc(n) == IF n >= 0 THEN n \div Den ELSE -((-n) \div Den)

\* f64::fract, in 1/Den units: it has the sign of its argument.
Fract(n) == n - Trunc(n) * Den

\* a < b for two distances.
Less(a, b) == a[1] < b[1] \/ (a[1] = b[1] /\ a[2] * b[3] < b[2] * a[3])

\* side_dist += delta_dist.  Adding 1e30 to a distance that has reached
\* AbsorbAt * 1e30 leaves it unchanged.
AddDist(a, delta) ==
  IF delta[1] > 0
    THEN IF a[1] >= AbsorbAt * Den THEN a ELSE <<a[1] + delta[1], a[2], a[3]>>
    ELSE <<a[1], a[2] + delta[2], a[3]>>

get_dists(start, direction) ==
  LET step == IF direction = 0 THEN 0 ELSE IF direction < 0 THEN -1 ELSE 1
      factor == IF direction > 0 THEN Den - Fract(start) ELSE Fract(start)
  IN  [map |-> Trunc(start),
       step |-> step,
       delta_dist |-> IF direction = 0 THEN <<Den, 0, 1>>
                      ELSE <<0, Den, Abs(direction)>>,
       side_dist |-> IF direction = 0 THEN <<factor, 0, 1>>
                     ELSE <<0, factor, Abs(direction)>>]

outside(value, min, max, step) ==
  IF step < 0 THEN value < min ELSE value > max

Planes == <<"X", "Y", "Z">>

Dim(w) == <<w.width, w.height, w.depth>>

\* The state of a call of trace just before its loop.
TraceBegin(start, direction) ==
  LET gx == get_dists(start[1], direction[1])
      gy == get_dists(start[2], direction[2])
      gz == get_dists(start[3], direction[3])
  IN  [map |-> <<gx.map, gy.map, gz.map>>,
       step |-> <<gx.step, gy.step, gz.step>>,
       delta_dist |-> <<gx.delta_dist, gy.delta_dist, gz.delta_dist>>,
       side_dist |-> <<gx.side_dist, gy.side_dist, gz.side_dist>>,
       status |-> "run", side |-> "-", block |-> "-", got |-> <<>>]

\* The axis the comparison cascade of the loop selects.
SelectAxis(sd) ==
  IF Less(sd[1], sd[2])
    THEN (IF Less(sd[1], sd[3]) THEN 1 ELSE 3)
    ELSE (IF Less(sd[2], sd[3]) THEN 2 ELSE 3)

\* Contains with the upper bound of x included (0..=width).
Contains_Inclusive(w, m) ==
  /\ 0 <= m[1] /\ m[1] <= w.width
  /\ 0 <= m[2] /\ m[2] < w.height
  /\ 0 <= m[3] /\ m[3] < w.depth

\* The range test that guards World::get in trace.
Contains(w, m) ==
  /\ 0 <= m[1] /\ m[1] < w.width
  /\ 0 <= m[2] /\ m[2] < w.height
  /\ 0 <= m[3] /\ m[3] < w.depth

\* The exit test of trace.
Left(w, m, step) ==
  \/ outside(m[1], 0, w.width, step[1])
  \/ outside(m[2], 0, w.height, step[2])
  \/ outside(m[3], 0, w.depth, step[3])

\* One iteration of the loop of trace.  got records the coordinates the
\* iteration passed to World::get (<<>> when it made no call).
TraceIter(w, s, dbg) ==
  LET a == SelectAxis(s.side_dist)
      m == [s.map EXCEPT ![a] = s.map[a] + s.step[a]]
      sd == [s.side_dist EXCEPT ![a] = AddDist(s.side_dist[a], s.delta_dist[a])]
      moved == [s EXCEPT !.map = m, !.side_dist = sd, !.side = Planes[a],
                         !.got = <<>>]
  IN  IF Contains(w, m)
        THEN LET b == WorldGet(w, m[1], m[2], m[3], dbg)
             IN  IF b = "Air" THEN [moved EXCEPT !.got = m]
                 ELSE IF b = "Panic"
                   THEN [moved EXCEPT !.got = m, !.status = "panic"]
                 ELSE [moved EXCEPT !.got = m, !.status = "hit", !.block = b]
        ELSE IF Left(w, m, s.step) THEN [moved EXCEPT !.status = "none"]
        ELSE moved

\* The outcome of a whole call of trace from loop state s: the final
\* state, or status "diverge" when the loop reaches a state that an
\* iteration leaves unchanged, from which it never returns.
RECURSIVE TraceRun(_, _, _)
TraceRun(w, s, dbg) ==
  IF s.status # "run" THEN s
  ELSE LET n == TraceIter(w, s, dbg)
       IN  IF n.status = "run" /\ n.map = s.map /\ n.side_dist = s.side_dist
             THEN [n EXCEPT !.status = "diverge"]
             ELSE TraceRun(w, n, dbg)

trace(w, start, direction, dbg) == TraceRun(w, TraceBegin(start, direction), dbg)


(***************************************************************************)
(* texture.rs: get_colour.  The 8x8 images are assets outside the source;  *)
(* each image is taken to be of one colour, a palette index of the group   *)
(* (green, brown, blue, grey) that the colour table of texture.rs gives    *)
(* the block, so the position of a hit inside the image (Hit.offset) and   *)
(* the debug assertion on it are not modelled.                             *)
(***************************************************************************)
get_colour(block, side) ==
  CASE block = "Air" -> DEFAULT_COLOUR
    [] block = "Water" -> 7
    [] block = "Dirt" /\ side = "X" -> 6
    [] block = "Dirt" /\ side = "Y" -> 4
    [] block = "Dirt" /\ side = "Z" -> 5
    [] block = "Grass" /\ side = "X" -> 3
    [] block = "Grass" /\ side = "Y" -> 1
    [] block = "Grass" /\ side = "Z" -> 2
    [] block = "Stone" /\ side = "X" -> 12
    [] block = "Stone" /\ side = "Y" -> 10
    [] block = "Stone" /\ side = "Z" -> 11

(***************************************************************************)
(* ray.rs: render.  Offsets and camera positions arrive in 1/Sub units.    *)
(***************************************************************************)
ToDen(v) == v * BUF_WIDTH * BUF_HEIGHT

\* ox = (1 - x / BUF_WIDTH) * 8 and oy = (1 - y / BUF_HEIGHT) * 6, in
\* 1/Den units.
RayOx(x) == 8 * (BUF_WIDTH - x) * BUF_HEIGHT * Sub
RayOy(y) == 6 * (BUF_HEIGHT - y) * BUF_WIDTH * Sub

RayStart(offset, x, y) ==
  <<RayOx(x) + ToDen(offset[1]), RayOy(y) + ToDen(offset[2]), ToDen(offset[3])>>

RayDirection(position, x, y) ==
  <<RayOx(x) - ToDen(position[1]), RayOy(y) - ToDen(position[2]),
    -ToDen(position[3])>>

\* No colour: the pixel whose trace does not return is never stored.
NoColour == 0 - 1

\* The match on the result of trace in the body of the pixel loop.
HitColour(t) ==
  IF t.status = "none" THEN DEFAULT_COLOUR
  ELSE IF t.status = "hit" THEN get_colour(t.block, t.side)
  ELSE NoColour

\* The colour render stores for pixel (x, y); NoColour when its call of
\* trace does not return.
PixelColour(w, offset, position, x, y, dbg) ==
  HitColour(trace(w, RayStart(offset, x, y), RayDirection(position, x, y), dbg))

\* Buffer::new
BufferNew == [i \in 1..SIZE |-> 0]

\* Buffer::get
BufferGet(buf, x, y) == buf[x + y * BUF_WIDTH + 1]

\* render as a whole: the framebuffer, and whether every pixel's trace
\* returns; when one does not, the fork-join of the rows never completes
\* and render does not return.
RECURSIVE RenderPixels(_, _, _, _, _)
RenderPixels(w, offset, position, dbg, i) ==
  IF i > SIZE THEN <<>>
  ELSE <<PixelColour(w, offset, position,
                     (i - 1) % BUF_WIDTH, (i - 1) \div BUF_WIDTH, dbg)>>
       \o RenderPixels(w, offset, position, dbg, i + 1)

render(w, offset, position, dbg) ==
  LET px == RenderPixels(w, offset, position, dbg, 1)
  IN  [returns |-> \A i \in 1..SIZE : px[i] # NoColour, buf |-> px]

(***************************************************************************)
(* buffer.rs: to_hex and Buffer::draw                                      *)
(***************************************************************************)
\* "0123456789abcdef".as_bytes()
HEX_COLOURS ==
  <<48, 49, 50, 51, 52, 53, 54, 55, 56, 57, 97, 98, 99, 100, 101, 102>>

to_hex(colour) == HEX_COLOURS[colour + 1]

Palette == 0..15

\* The cells of a 2x3 tile in the order of the two nested loops of draw:
\* dx outermost, dy innermost.
TileCells == <<<<0, 0>>, <<0, 1>>, <<0, 2>>, <<1, 0>>, <<1, 1>>, <<1, 2>>>>

\* totals and unique: the tally loop over a tile p, a function of
\* <<dx, dy>>; t is <<totals, unique>> before cell i.
RECURSIVE Tally(_, _, _)
Tally(p, t, i) ==
  IF i > 6 THEN t
  ELSE Tally(p,
             <<[t[1] EXCEPT ![p[TileCells[i]]] = @ + 1],
               IF t[1][p[TileCells[i]]] = 0 THEN t[2] + 1 ELSE t[2]>>,
             i + 1)

Totals(p) == Tally(p, <<[c \in Palette |-> 0], 0>>, 1)[1]

Unique(p) == Tally(p, <<[c \in Palette |-> 0], 0>>, 1)[2]

\* The unique == 1 branch: the loop keeps the first index whose total is
\* greater than every total before it; c is <<colour, best>> before i.
RECURSIVE BestColour(_, _, _)
BestColour(totals, c, i) ==
  IF i > 15 THEN c[1]
  ELSE BestColour(totals, IF totals[i] > c[2] THEN <<i, totals[i]>> ELSE c, i + 1)

\* colours.sort_by_key(|k| -totals[k]): a stable sort, by insertion.
RECURSIVE InsertByKey(_, _, _)
InsertByKey(sorted, k, totals) ==
  IF sorted = <<>> THEN <<k>>
  ELSE IF -totals[k] < -totals[Head(sorted)] THEN <<k>> \o sorted
  ELSE <<Head(sorted)>> \o InsertByKey(Tail(sorted), k, totals)

RECURSIVE SortByKey(_, _, _)
SortByKey(colours, totals, n) ==
  IF n = 0 THEN <<>>
  ELSE InsertByKey(SortByKey(colours, totals, n - 1), colours[n], totals)

\* colours after the sort: bg = colours[0] and fg = colours[1].
Ranked(p) ==
  SortByKey(<<0, 1, 2, 3, 4, 5, 6, 7, 8, 9, 10, 11, 12, 13, 14, 15>>, Totals(p), 16)

\* last taken to be bg whatever the bottom-right cell holds.
LastColour_AlwaysBg(p, fg, bg) == bg

\* last: the colour the bottom-right cell selects.
LastColour(p, fg, bg) == IF p[<<1, 2>>] = fg THEN fg ELSE bg

\* 1 << n
Pow2(n) == CASE n = 0 -> 1 [] n = 1 -> 2 [] n = 2 -> 4 [] n = 3 -> 8 [] n = 4 -> 16

\* code: 128 with bit 2*dy+dx set for each cell, other than (1,2), whose
\* colour differs from last.  The bits are distinct, so |= is a sum.
RECURSIVE GlyphCode(_, _, _)
GlyphCode(p, last, i) ==
  IF i > 6 THEN 128
  ELSE LET dx == TileCells[i][1]
           dy == TileCells[i][2]
       IN  (IF ~(dx = 1 /\ dy = 2) /\ p[TileCells[i]] # last
              THEN Pow2(2 * dy + dx) ELSE 0)
           + GlyphCode(p, last, i + 1)

\* DrawTile without the swap of fg and bg when last is fg.
DrawTile_NoSwap(p) ==
  IF Unique(p) = 1 THEN <<32, 0, BestColour(Totals(p), <<0, 0>>, 0)>>
  ELSE LET colours == Ranked(p)
           bg == colours[1]
           fg == colours[2]
           last == LastColour(p, fg, bg)
           code == GlyphCode(p, last, 1)
       IN  <<code, fg, bg>>

\* The (text, fg, bg) triple draw computes for one tile.
DrawTile(p) ==
  IF Unique(p) = 1 THEN <<32, 0, BestColour(Totals(p), <<0, 0>>, 0)>>
  ELSE LET colours == Ranked(p)
           bg == colours[1]
           fg == colours[2]
           last == LastColour(p, fg, bg)
           code == GlyphCode(p, last, 1)
       IN  IF last = bg THEN <<code, fg, bg>> ELSE <<code, bg, fg>>

\* The tile of monitor cell (mon_x, mon_y) of a buffer.
TileAt(buf, mon_x, mon_y) ==
  [c \in {0, 1} \X {0, 1, 2} |-> BufferGet(buf, mon_x * 2 + c[1], mon_y * 3 + c[2])]

\* The bytes of one tile row: MON_WIDTH glyphs, then MON_WIDTH foreground
\* digits, then MON_WIDTH background digits.
RECURSIVE RowTiles(_, _, _)
RowTiles(buf, mon_y, mon_x) ==
  IF mon_x = MON_WIDTH THEN <<>>
  ELSE <<DrawTile(TileAt(buf, mon_x, mon_y))>> \o RowTiles(buf, mon_y, mon_x + 1)

TileRow(buf, mon_y) ==
  LET t == RowTiles(buf, mon_y, 0)
  IN  [i \in 1..MON_WIDTH |-> t[i][1]]
      \o [i \in 1..MON_WIDTH |-> to_hex(t[i][2])]
      \o [i \in 1..MON_WIDTH |-> to_hex(t[i][3])]

\* Buffer::draw
RECURSIVE DrawRows(_, _)
DrawRows(buf, mon_y) ==
  IF mon_y = MON_HEIGHT THEN <<>>
  ELSE TileRow(buf, mon_y) \o DrawRows(buf, mon_y + 1)

draw(buf) == DrawRows(buf, 0)

(***************************************************************************)
(* Inputs.  An upload's world is a sequence (Y) of sequences (Z) of rows,  *)
(* a row being a sequence of one-character strings (X).                    *)
(***************************************************************************)
GoodUploads ==
  { <<<< <<"s">> >>>>,
    <<<< <<" ">> >>>>,
    <<<< <<"s", "g">> >>>>,
    <<<< <<" ", "d">>, <<"w", " ">> >>>>,
    << << <<"s", " ">> >>, << <<" ", "g">> >> >> }

\* Offsets and camera positions, in 1/Sub units.  Pixel column
\* BUF_WIDTH / 2 has ox = 4 and pixel row 0 has oy = 6, so a camera at
\* (4, 6, 0) gives that pixel a direction of (0, 0, 0).
Offsets ==
  {-2 * Sub, 1 - 2 * Sub, -4 * Sub} \X {-2 * Sub, 1 - 2 * Sub, -6 * Sub}
    \X {0, 1, Sub, 2 * Sub + 1}

Positions == {0, 4 * Sub, 5 * Sub} \X {0, 6 * Sub} \X {0, Sub, -Sub}

\* A 7 x 5 x 1 world, wide enough for several pixels of the scaled-down
\* framebuffer to look at different blocks.
WideUpload ==
  << << <<"s", " ", "d", " ", "g", " ", "w">> >>,
     << <<" ", " ", " ", " ", " ", " ", " ">> >>,
     << <<"g", " ", "w", " ", "s", " ", "d">> >>,
     << <<" ", " ", " ", " ", " ", " ", " ">> >>,
     << <<"d", " ", "s", " ", "w", " ", "g">> >> >>

\* An offset that puts the pixels' ray origins just above that world, and
\* camera positions: one far below it, one at its side.
WideOffset == <<1 - 2 * Sub, 1 - 2 * Sub, Sub + 1>>

CameraBelow == <<4 * Sub, 4 * Sub, 8 * Sub>>

CameraAside == <<0, 0, Sub>>

\* A camera whose pixel (BUF_WIDTH / 2, 0) gets the direction (0, 0, 0).
CameraOnPixel == <<4 * Sub, 6 * Sub, 0>>

TraceWorlds == {Deserialize(u, FALSE).world : u \in GoodUploads}

Scenes == [world : TraceWorlds, offset : Offsets, position : Positions]

(***************************************************************************)
(* State.                                                                  *)
(***************************************************************************)
VARIABLES
  debug,     \* the build: TRUE when debug assertions are compiled in
  scene,     \* render's arguments: world, offset, position
  \* one row of render, pixel by pixel, with trace run step by step
  tpc,       \* "pixel": before a call of trace; "loop": inside it; "done"
  row,       \* y of the row
  col,       \* x of the pixel
  tr,        \* the state of the loop of trace
  out,       \* the row's chunk of the framebuffer
  earlier,   \* the voxels the earlier steps of this call entered
  \* one frame: the rows of render on the thread pool, then draw
  phase,     \* "fork": rows being rendered; "joined": render has
             \* returned; "drawn": draw has returned
  fb,        \* the framebuffer (Buffer.colours)
  rows,      \* per row: "free", "taken" or "done", and the worker it went to
  workers,   \* per worker: the row it renders and its x, or idle
  writes,    \* per pixel: how many times it was written
  writer,    \* per pixel: the worker that wrote it last (0: none)
  cell,      \* the monitor cell the encoder check looks at
  encoded,   \* the bytes draw returned
  \* one session of websocket_handler
  pc,        \* "await_world", "loop", "render", "send", "done", "panic"
  wmsg,      \* the decoded WorldMessage
  result,    \* the encoded frame being sent
  nrecv,     \* messages taken from the channel so far
  first,     \* the first message taken from the channel
  cams,      \* the camera positions decoded so far, in arrival order
  handed,    \* the frames passed to send.send so far, in order
  delivered, \* how many of them the transport accepted
  failedAt,  \* <<Len(cams), Len(handed)>> at the first transport failure
  ignoredAt  \* <<Len(cams), Len(handed)>> at the first message of the loop
             \* that arrived but did not decode as a RenderMessage

traceVars == <<tpc, row, col, tr, out, earlier>>

frameVars == <<phase, fb, rows, workers, writes, writer, cell, encoded>>

sessVars ==
  <<pc, wmsg, result, nrecv, first, cams, handed, delivered, failedAt, ignoredAt>>

vars == <<debug, scene, traceVars, frameVars, sessVars>>

\* The values of the variables a specification does not use.
NoScene == [world |-> WorldNew(0, 0, 0), offset |-> <<0, 0, 0>>,
            position |-> <<0, 0, 0>>]

NoMsg == [kind |-> "-"]

NoWorld == [world |-> WorldNew(0, 0, 0), offset |-> <<0, 0, 0>>, set |-> FALSE]

TraceIdle ==
  /\ tpc = "-" /\ row = 0 /\ col = 0 /\ tr = [status |-> "-"]
  /\ out = <<>> /\ earlier = {}

FrameIdle ==
  /\ phase = "-" /\ fb = <<>> /\ rows = <<>> /\ workers = <<>>
  /\ writes = <<>> /\ writer = <<>> /\ cell = <<0, 0>> /\ encoded = <<>>

SessionIdle ==
  /\ pc = "-" /\ wmsg = NoWorld /\ result = <<>> /\ nrecv = 0
  /\ first = NoMsg /\ cams = <<>> /\ handed = <<>> /\ delivered = 0
  /\ failedAt = <<>>
  /\ ignoredAt = <<>>

NoTrace == [status |-> "-"]

(***************************************************************************)
(* One row of render (the closure of for_each), trace being stepped one    *)
(* loop iteration at a time.                                               *)
(***************************************************************************)
InitTrace ==
  /\ debug \in BOOLEAN
  /\ scene \in Scenes
  /\ tpc = "pixel"
  /\ row \in 0..(BUF_HEIGHT - 1)
  /\ col = 0
  /\ tr = NoTrace
  /\ out = [x \in 1..BUF_WIDTH |-> 0]
  /\ earlier = {}
  /\ FrameIdle
  /\ SessionIdle

\* The call of trace: the three calls of get_dists.
BeginTrace ==
  /\ tpc = "pixel"
  /\ tr' = TraceBegin(RayStart(scene.offset, col, row),
                      RayDirection(scene.position, col, row))
  /\ earlier' = {}
  /\ tpc' = "loop"
  /\ UNCHANGED <<debug, scene, row, col, out, frameVars, sessVars>>

\* One iteration of the loop of trace.
TraceStep ==
  /\ tpc = "loop"
  /\ tr.status = "run"
  /\ tr' = TraceIter(scene.world, tr, debug)
  /\ earlier' = IF tr.side = "-" THEN earlier ELSE earlier \cup {tr.map}
  /\ UNCHANGED <<debug, scene, tpc, row, col, out, frameVars, sessVars>>

\* out[x] = match trace(..) { None => DEFAULT_COLOUR, Some(hit) => .. }
StorePixel ==
  /\ tpc = "loop"
  /\ tr.status \in {"hit", "none"}
  /\ out' = [out EXCEPT ![col + 1] = HitColour(tr)]
  /\ col' = col + 1
  /\ tpc' = IF col + 1 = BUF_WIDTH THEN "done" ELSE "pixel"
  /\ UNCHANGED <<debug, scene, row, tr, earlier, frameVars, sessVars>>

NextTrace == BeginTrace \/ TraceStep \/ StorePixel

SpecTrace == InitTrace /\ [][NextTrace]_vars


(***************************************************************************)
(* One frame: render's rows on the thread pool                             *)
(* (par_chunks_exact_mut(BUF_WIDTH).enumerate().for_each), its return, and *)
(* Buffer::draw.  Each row chunk is handed to exactly one worker; which    *)
(* worker takes which row, and when, is the pool's choice.                 *)
(***************************************************************************)
Workers == 1..NumWorkers

Rows == 0..(BUF_HEIGHT - 1)

Idle == [busy |-> FALSE, y |-> 0, x |-> 0]

FrameScenes ==
  [world : {Deserialize(WideUpload, FALSE).world}, offset : {WideOffset},
   position : {CameraBelow, CameraAside, CameraOnPixel}]

InitFrame ==
  /\ debug \in BOOLEAN
  /\ scene \in FrameScenes
  /\ phase = "fork"
  /\ fb = BufferNew
  /\ rows = [y \in Rows |-> [st |-> "free", by |-> 0]]
  /\ workers = [w \in Workers |-> Idle]
  /\ writes = [i \in 1..SIZE |-> 0]
  /\ writer = [i \in 1..SIZE |-> 0]
  /\ cell = <<0, 0>>
  /\ encoded = <<>>
  /\ TraceIdle
  /\ SessionIdle

\* A worker of the pool takes a row chunk nobody has taken.
TakeRow(w, y) ==
  /\ phase = "fork"
  /\ ~workers[w].busy
  /\ rows[y].st = "free"
  /\ rows' = [rows EXCEPT ![y] = [st |-> "taken", by |-> w]]
  /\ workers' = [workers EXCEPT ![w] = [busy |-> TRUE, y |-> y, x |-> 0]]
  /\ UNCHANGED <<debug, scene, phase, fb, writes, writer, cell, encoded,
                 traceVars, sessVars>>

\* The index of pixel x of row chunk y in the framebuffer (1-based).
ChunkIndex(y, x) == y * BUF_WIDTH + x + 1

\* One iteration of the pixel loop of the closure: out[x] = colour.  The
\* iteration does not end when the pixel's call of trace does not return.
WritePixel(w) ==
  LET y == workers[w].y
      x == workers[w].x
      c == PixelColour(scene.world, scene.offset, scene.position, x, y, debug)
  IN  /\ phase = "fork"
      /\ workers[w].busy
      /\ x < BUF_WIDTH
      /\ c # NoColour
      /\ fb' = [fb EXCEPT ![ChunkIndex(y, x)] = c]
      /\ writes' = [writes EXCEPT ![ChunkIndex(y, x)] = @ + 1]
      /\ writer' = [writer EXCEPT ![ChunkIndex(y, x)] = w]
      /\ workers' = [workers EXCEPT ![w].x = x + 1]
      /\ UNCHANGED <<debug, scene, phase, rows, cell, encoded, traceVars, sessVars>>

\* The closure returns for the row.
FinishRow(w) ==
  /\ phase = "fork"
  /\ workers[w].busy
  /\ workers[w].x = BUF_WIDTH
  /\ rows' = [rows EXCEPT ![workers[w].y].st = "done"]
  /\ workers' = [workers EXCEPT ![w] = Idle]
  /\ UNCHANGED <<debug, scene, phase, fb, writes, writer, cell, encoded,
                 traceVars, sessVars>>

\* Join without the barrier: render returns once every row has been taken.
Join_Early ==
  /\ phase = "fork"
  /\ \A y \in Rows : rows[y].st # "free"
  /\ phase' = "joined"
  /\ workers' = [w \in Workers |-> Idle]
  /\ rows' = [y \in Rows |-> [rows[y] EXCEPT !.st = "done"]]
  /\ UNCHANGED <<debug, scene, fb, writes, writer, cell, encoded,
                 traceVars, sessVars>>

\* for_each returns once every row chunk has been processed, and render
\* returns the buffer.
Join ==
  /\ phase = "fork"
  /\ \A y \in Rows : rows[y].st = "done"
  /\ phase' = "joined"
  /\ UNCHANGED <<debug, scene, fb, rows, workers, writes, writer, cell, encoded,
                 traceVars, sessVars>>

\* let result = buffer.draw();
DrawFrame ==
  /\ phase = "joined"
  /\ encoded' = draw(fb)
  /\ phase' = "drawn"
  /\ UNCHANGED <<debug, scene, fb, rows, workers, writes, writer, cell,
                 traceVars, sessVars>>

NextFrame ==
  \/ \E w \in Workers, y \in Rows : TakeRow(w, y)
  \/ \E w \in Workers : WritePixel(w)
  \/ \E w \in Workers : FinishRow(w)
  \/ Join
  \/ DrawFrame

SpecFrame == InitFrame /\ [][NextFrame]_vars

(***************************************************************************)
(* Buffer::draw on a framebuffer that holds one arbitrary 2x3 tile, at     *)
(* monitor cell `cell`, and zeroes elsewhere.                              *)
(***************************************************************************)
TileColours == 0..MaxTileColour

Tiles == [{0, 1} \X {0, 1, 2} -> TileColours]

MonCells == (0..(MON_WIDTH - 1)) \X (0..(MON_HEIGHT - 1))

\* The framebuffer with tile p at monitor cell c.
BufferWith(p, c) ==
  [i \in 1..SIZE |->
    LET x == (i - 1) % BUF_WIDTH
        y == (i - 1) \div BUF_WIDTH
    IN  IF x \div 2 = c[1] /\ y \div 3 = c[2] THEN p[<<x % 2, y % 3>>] ELSE 0]

InitDraw ==
  /\ debug = FALSE
  /\ scene = NoScene
  /\ phase = "joined"
  /\ cell \in MonCells
  /\ \E p \in Tiles : fb = BufferWith(p, cell)
  /\ rows = <<>> /\ workers = <<>> /\ writes = <<>> /\ writer = <<>>
  /\ encoded = <<>>
  /\ TraceIdle
  /\ SessionIdle

NextDraw == DrawFrame

SpecDraw == InitDraw /\ [][NextDraw]_vars

(***************************************************************************)
(* routes.rs: one session of websocket_handler.  The transport is the      *)
(* environment: each receive yields one item of Messages or the end of the *)
(* stream, and each send succeeds or fails.                                *)
(***************************************************************************)
\* Uploads that are not well-formed worlds.
UnknownUpload == <<<< <<"s", "x">> >>>>
ShortRowUpload == <<<< <<"s", "s">>, <<"s">> >>>>
ShortRowUnknownUpload == <<<< <<"s", "s">>, <<"x">> >>>>
LongRowUpload == <<<< <<"s">>, <<"s", "s">>, <<"s">> >>>>
TallPlaneUpload == << << <<"s">> >>, << <<"s">>, <<"s">> >> >>
EmptyUpload == <<>>

SessionUploads ==
  {WideUpload, UnknownUpload, ShortRowUpload, ShortRowUnknownUpload,
   LongRowUpload, TallPlaneUpload, EmptyUpload}

\* What receive.next() yields: a text message holding the JSON of a
\* WorldMessage or of a RenderMessage, a text message holding neither, a
\* message that is not text, or a receive error.
Messages ==
  [kind : {"world"}, contents : SessionUploads, offset : {WideOffset}]
    \cup [kind : {"camera"}, position : {CameraBelow, CameraAside, CameraOnPixel}]
    \cup [kind : {"malformed", "binary", "error"}]

\* decode_message::<WorldMessage>.  kind is "some", "none", or "panic" when
\* World::deserialize panics.
DecodeWorldMessage(m, dbg) ==
  IF m.kind # "world" THEN [kind |-> "none"]
  ELSE LET d == Deserialize(m.contents, dbg)
       IN  IF d.kind = "ok"
             THEN [kind |-> "some",
                   value |-> [world |-> d.world, offset |-> m.offset, set |-> TRUE]]
           ELSE IF d.kind = "err" THEN [kind |-> "none"]
           ELSE [kind |-> "panic"]

\* decode_message::<RenderMessage>
DecodeRenderMessage(m) ==
  IF m.kind = "camera" THEN [kind |-> "some", value |-> m.position]
  ELSE [kind |-> "none"]

InitSession ==
  /\ debug \in BOOLEAN
  /\ scene = NoScene
  /\ pc = "await_world"
  /\ wmsg = NoWorld
  /\ result = <<>>
  /\ nrecv = 0
  /\ first = NoMsg
  /\ cams = <<>>
  /\ handed = <<>>
  /\ delivered = 0
  /\ failedAt = <<>>
  /\ ignoredAt = <<>>
  /\ TraceIdle
  /\ FrameIdle

\* The first transport failure is remembered with the number of cameras
\* decoded and frames passed to the transport at that moment.
NoteFailure(failed, ncams, nhanded) ==
  IF failed /\ failedAt = <<>> THEN <<ncams, nhanded>> ELSE failedAt

\* The first message of the loop that arrived (is not a receive error) and
\* did not decode as a RenderMessage is remembered the same way.
NoteIgnored(m, ncams, nhanded) ==
  IF m.kind # "error" /\ DecodeRenderMessage(m).kind = "none" /\ ignoredAt = <<>>
    THEN <<ncams, nhanded>>
    ELSE ignoredAt

\* AwaitWorld entering the loop, with an empty world, when the first
\* message does not decode.
AwaitWorld_NoReturn(m) ==
  /\ pc = "await_world"
  /\ first' = m
  /\ nrecv' = nrecv + 1
  /\ failedAt' = NoteFailure(m.kind = "error", 0, 0)
  /\ LET d == DecodeWorldMessage(m, debug)
     IN  /\ wmsg' = IF d.kind = "some" THEN d.value ELSE wmsg
         /\ pc' = IF d.kind = "panic" THEN "panic" ELSE "loop"
  /\ UNCHANGED <<debug, scene, result, cams, handed, delivered, ignoredAt, traceVars, frameVars>>

\* The first receive.next().await yields a message: decode it as the
\* WorldMessage, or return.
AwaitWorld(m) ==
  /\ pc = "await_world"
  /\ first' = m
  /\ nrecv' = nrecv + 1
  /\ failedAt' = NoteFailure(m.kind = "error", 0, 0)
  /\ LET d == DecodeWorldMessage(m, debug)
     IN  /\ wmsg' = IF d.kind = "some" THEN d.value ELSE wmsg
         /\ pc' = IF d.kind = "some" THEN "loop"
                  ELSE IF d.kind = "none" THEN "done" ELSE "panic"
  /\ UNCHANGED <<debug, scene, result, cams, handed, delivered, ignoredAt, traceVars, frameVars>>

\* The first receive.next().await yields None.
AwaitWorldClosed ==
  /\ pc = "await_world"
  /\ pc' = "done"
  /\ UNCHANGED <<debug, scene, wmsg, result, nrecv, first, cams, handed, delivered,
                 failedAt, ignoredAt, traceVars, frameVars>>

\* LoopReceive rendering the position of the session's first camera
\* message instead of the one just decoded.
LoopReceive_Stale(m) ==
  /\ pc = "loop"
  /\ nrecv < MaxMsgs
  /\ nrecv' = nrecv + 1
  /\ failedAt' = NoteFailure(m.kind = "error", Len(cams), Len(handed))
  /\ LET d == DecodeRenderMessage(m)
     IN  IF d.kind = "some"
           THEN LET r == render(wmsg.world, wmsg.offset,
                                IF cams = <<>> THEN d.value ELSE cams[1], debug)
                IN  /\ cams' = Append(cams, d.value)
                    /\ result' = IF r.returns THEN draw(r.buf) ELSE result
                    /\ pc' = IF r.returns THEN "send" ELSE "render"
           ELSE UNCHANGED <<cams, result, pc>>
  /\ ignoredAt' = NoteIgnored(m, Len(cams), Len(handed))
  /\ UNCHANGED <<debug, scene, wmsg, first, handed, delivered, traceVars, frameVars>>

\* LoopReceive leaving the loop at a message that does not decode as a
\* RenderMessage.
LoopReceive_BreakOnIgnored(m) ==
  /\ pc = "loop"
  /\ nrecv < MaxMsgs
  /\ nrecv' = nrecv + 1
  /\ failedAt' = NoteFailure(m.kind = "error", Len(cams), Len(handed))
  /\ LET d == DecodeRenderMessage(m)
     IN  IF d.kind = "some"
           THEN LET r == render(wmsg.world, wmsg.offset, d.value, debug)
                IN  /\ cams' = Append(cams, d.value)
                    /\ result' = IF r.returns THEN draw(r.buf) ELSE result
                    /\ pc' = IF r.returns THEN "send" ELSE "render"
           ELSE /\ pc' = "done"
                /\ UNCHANGED <<cams, result>>
  /\ ignoredAt' = NoteIgnored(m, Len(cams), Len(handed))
  /\ UNCHANGED <<debug, scene, wmsg, first, handed, delivered, traceVars, frameVars>>

\* The loop's receive.next().await yields a message.  One that decodes as
\* a RenderMessage is rendered and drawn, and the handler then waits at
\* send; when render does not return the handler stays in it ("render").
\* Any other message is only logged.
LoopReceive(m) ==
  /\ pc = "loop"
  /\ nrecv < MaxMsgs
  /\ nrecv' = nrecv + 1
  /\ failedAt' = NoteFailure(m.kind = "error", Len(cams), Len(handed))
  /\ LET d == DecodeRenderMessage(m)
     IN  IF d.kind = "some"
           THEN LET r == render(wmsg.world, wmsg.offset, d.value, debug)
                IN  /\ cams' = Append(cams, d.value)
                    /\ result' = IF r.returns THEN draw(r.buf) ELSE result
                    /\ pc' = IF r.returns THEN "send" ELSE "render"
           ELSE UNCHANGED <<cams, result, pc>>
  /\ ignoredAt' = NoteIgnored(m, Len(cams), Len(handed))
  /\ UNCHANGED <<debug, scene, wmsg, first, handed, delivered, traceVars, frameVars>>

\* The loop's receive.next().await yields None.
LoopClosed ==
  /\ pc = "loop"
  /\ pc' = "done"
  /\ UNCHANGED <<debug, scene, wmsg, result, nrecv, first, cams, handed, delivered,
                 failedAt, ignoredAt, traceVars, frameVars>>

\* send.send(Message::binary(result)).await returns Ok.
SendOk ==
  /\ pc = "send"
  /\ handed' = Append(handed, result)
  /\ delivered' = delivered + 1
  /\ result' = <<>>
  /\ pc' = "loop"
  /\ UNCHANGED <<debug, scene, wmsg, nrecv, first, cams, failedAt, ignoredAt, traceVars, frameVars>>

\* send.send(..).await returns Err: the error is logged.
SendFail ==
  /\ pc = "send"
  /\ handed' = Append(handed, result)
  /\ failedAt' = NoteFailure(TRUE, Len(cams), Len(handed) + 1)
  /\ result' = <<>>
  /\ pc' = "loop"
  /\ UNCHANGED <<debug, scene, wmsg, nrecv, first, cams, delivered, ignoredAt, traceVars, frameVars>>

Next ==
  \/ \E m \in Messages : AwaitWorld(m)
  \/ AwaitWorldClosed
  \/ \E m \in Messages : LoopReceive(m)
  \/ LoopClosed
  \/ SendOk
  \/ SendFail

Spec == InitSession /\ [][Next]_vars

(***************************************************************************)
(* Claims about trace, checked under SpecTrace.                            *)
(***************************************************************************)
InLoop == tpc = "loop"

AxisOf(side) == CHOOSE a \in Axes : Planes[a] = side

\* Voxel m lies inside world w.
Inside(w, m) == \A a \in Axes : 0 <= m[a] /\ m[a] < Dim(w)[a]

\* The block of voxel m of the world, read off the block array.
BlockAt(w, m) == w.blocks[m[1] + m[2] * w.width + m[3] * w.width * w.height + 1]

\* C4: every call of trace that render makes returns (a Hit or no hit):
\* from no state of its loop does the loop run forever.
C4_TraceTerminates ==
  InLoop => TraceRun(scene.world, tr, debug).status # "diverge"

\* C9: an axis whose direction component is zero is never the axis a step
\* of the DDA selects, so it is never the face axis of a Hit.
C9_FrozenAxisNeverSelected ==
  (InLoop /\ tr.side # "-") => tr.step[AxisOf(tr.side)] # 0

\* The parts of C10 about a Hit and about World::get: a Hit's voxel is
\* inside the world, its block is the world's block there and is not Air,
\* every voxel an earlier step entered was outside the world or Air, and
\* World::get is only ever called, without panicking, inside the world.
HitIsFirstSolid ==
  /\ (InLoop /\ tr.status = "hit") =>
       /\ Inside(scene.world, tr.map)
       /\ tr.block = BlockAt(scene.world, tr.map)
       /\ tr.block # "Air"
       /\ \A v \in earlier :
            Inside(scene.world, v) => BlockAt(scene.world, v) = "Air"
  /\ (InLoop /\ tr.got # <<>>) =>
       /\ Inside(scene.world, tr.got)
       /\ tr.got = tr.map
       /\ tr.status # "panic"
  /\ (InLoop /\ tr.status = "run" /\ tr.side # "-" /\ Inside(scene.world, tr.map))
       => tr.got = tr.map

\* C10 as stated: with it, no hit is returned only when the position has
\* passed a world bound on an axis in the direction of that axis's step.
C10_HitFirstSolid_NoHitPastBoundInStepDirection ==
  /\ HitIsFirstSolid
  /\ (InLoop /\ tr.status = "none") =>
       \E a \in Axes :
         \/ tr.step[a] < 0 /\ tr.map[a] < 0
         \/ tr.step[a] > 0 /\ tr.map[a] > Dim(scene.world)[a]

\* C10 as amended: no hit is returned only when the position is outside
\* the world, below 0 on an axis whose step is negative or above the
\* world's dimension on an axis whose step is zero or positive.
C10_HitFirstSolid_NoHitPastBound ==
  /\ HitIsFirstSolid
  /\ (InLoop /\ tr.status = "none") =>
       /\ ~Inside(scene.world, tr.map)
       /\ \E a \in Axes :
            \/ tr.step[a] < 0 /\ tr.map[a] < 0
            \/ tr.step[a] >= 0 /\ tr.map[a] > Dim(scene.world)[a]

\* A Hit returned after an earlier step entered an Air voxel of the world.
C10_Witness ==
  /\ InLoop
  /\ tr.status = "hit"
  /\ \E v \in earlier : Inside(scene.world, v) /\ v # tr.map


(***************************************************************************)
(* Claims about Buffer::draw, checked under SpecDraw.  They read the       *)
(* bytes draw returned for the monitor cell that holds the tile.           *)
(***************************************************************************)
Drawn == phase = "drawn"

TheTile == TileAt(fb, cell[1], cell[2])

GlyphByte == encoded[cell[2] * MON_WIDTH * 3 + cell[1] + 1]

FgByte == encoded[cell[2] * MON_WIDTH * 3 + MON_WIDTH + cell[1] + 1]

BgByte == encoded[cell[2] * MON_WIDTH * 3 + 2 * MON_WIDTH + cell[1] + 1]

Bit(g, n) == (g \div Pow2(n)) % 2 = 1

\* The colour digit a client decodes for cell c of the tile.
Decoded(c) ==
  IF c = <<1, 2>> THEN BgByte
  ELSE IF Bit(GlyphByte, 2 * c[2] + c[1]) THEN FgByte ELSE BgByte

Count(p, colour) == Cardinality({c \in DOMAIN p : p[c] = colour})

ColoursOf(p) == {p[c] : c \in DOMAIN p}

\* C6: a tile of exactly two colours is decoded back cell by cell: a cell
\* other than (1,2) has the emitted fg if its glyph bit is set and the
\* emitted bg otherwise, and cell (1,2) has the emitted bg.
C6_TwoColourPreserved ==
  (Drawn /\ Cardinality(ColoursOf(TheTile)) = 2) =>
    \A c \in DOMAIN TheTile : to_hex(TheTile[c]) = Decoded(c)

\* A two-colour tile whose bottom-right cell has the less common colour,
\* so that draw swaps fg and bg.
C6_Witness ==
  /\ Drawn
  /\ Cardinality(ColoursOf(TheTile)) = 2
  /\ Count(TheTile, TheTile[<<1, 2>>]) < 3
  /\ \E c \in DOMAIN TheTile : Decoded(c) = FgByte

\* A tile of three colours with counts 3, 2 and 1.
ThreeTwoOne(p) ==
  /\ Cardinality(ColoursOf(p)) = 3
  /\ \E c \in ColoursOf(p) : Count(p, c) = 3
  /\ \E c \in ColoursOf(p) : Count(p, c) = 2

Red(p) == CHOOSE c \in ColoursOf(p) : Count(p, c) = 3
Green(p) == CHOOSE c \in ColoursOf(p) : Count(p, c) = 2
BluePos(p) == CHOOSE c \in DOMAIN p : Count(p, p[c]) = 1

\* last, and the other of the two ranked colours.
LastOf(p) == IF p[<<1, 2>>] = Green(p) THEN Green(p) ELSE Red(p)
OtherOf(p) == IF p[<<1, 2>>] = Green(p) THEN Red(p) ELSE Green(p)

\* The two ranked colours of a 3-2-1 tile are red and green, emitted with
\* last as the background.
RanksRedGreen ==
  (Drawn /\ ThreeTwoOne(TheTile)) =>
    /\ BgByte = to_hex(LastOf(TheTile))
    /\ FgByte = to_hex(OtherOf(TheTile))

\* C7 as stated: wherever the blue pixel is, its cell decodes to last.
C7_BlueDecodesToLast ==
  /\ RanksRedGreen
  /\ (Drawn /\ ThreeTwoOne(TheTile)) =>
       Decoded(BluePos(TheTile)) = to_hex(LastOf(TheTile))

\* C7 as amended: the blue pixel's cell decodes to last only when it is
\* the bottom-right cell (1,2), where last is red; anywhere else its bit
\* is set and it decodes to the other of the two colours.
C7_BlueDecodesToOtherUnlessCorner ==
  /\ RanksRedGreen
  /\ (Drawn /\ ThreeTwoOne(TheTile)) =>
       IF BluePos(TheTile) = <<1, 2>>
         THEN /\ LastOf(TheTile) = Red(TheTile)
              /\ Decoded(BluePos(TheTile)) = to_hex(Red(TheTile))
         ELSE Decoded(BluePos(TheTile)) = to_hex(OtherOf(TheTile))

\* A 3-2-1 tile, drawn, whose blue pixel is not the bottom-right cell and
\* whose bottom-right cell is green.
C7_Witness ==
  /\ Drawn
  /\ ThreeTwoOne(TheTile)
  /\ BluePos(TheTile) # <<1, 2>>
  /\ TheTile[<<1, 2>>] = Green(TheTile)

(***************************************************************************)
(* Claims about one frame, checked under SpecFrame.                        *)
(***************************************************************************)
RowOf(i) == (i - 1) \div BUF_WIDTH

\* C8: every pixel is written at most once, and only by the worker its
\* row went to; render returns only when every row is finished and every
\* pixel has been written exactly once; draw runs only after that; and
\* the framebuffer and the encoded frame are then those of the scene,
\* whatever the interleaving and the assignment of rows to workers.
C8_RowsDisjointFrameDeterministic ==
  /\ \A i \in DOMAIN writes :
       /\ writes[i] <= 1
       /\ writes[i] = 1 =>
            /\ rows[RowOf(i)].st # "free"
            /\ writer[i] = rows[RowOf(i)].by
  /\ \A w \in DOMAIN workers :
       workers[w].busy => rows[workers[w].y] = [st |-> "taken", by |-> w]
  /\ (phase \in {"joined", "drawn"} /\ scene # NoScene) =>
       /\ \A w \in DOMAIN workers : ~workers[w].busy
       /\ \A y \in DOMAIN rows : rows[y].st = "done"
       /\ \A i \in DOMAIN writes : writes[i] = 1
       /\ fb = render(scene.world, scene.offset, scene.position, debug).buf
  /\ (phase = "drawn" /\ scene # NoScene) =>
       encoded = draw(render(scene.world, scene.offset, scene.position, debug).buf)

\* A frame, drawn, whose rows were written by different workers and whose
\* pixels are not all of one colour.
C8_Witness ==
  /\ phase = "drawn"
  /\ scene # NoScene
  /\ \E i, j \in DOMAIN writer : writer[i] # writer[j]
  /\ \E i, j \in DOMAIN fb : fb[i] # fb[j]


(***************************************************************************)
(* Claims about a session, checked under Spec.                             *)
(***************************************************************************)
Ended == pc \in {"done", "panic"}

BlockChars == {" ", "d", "g", "s", "w"}

HasUnknownChar(contents) ==
  \E y \in DOMAIN contents : \E z \in DOMAIN contents[y] :
    \E x \in DOMAIN contents[y][z] : contents[y][z][x] \notin BlockChars

\* Every plane has as many rows as the first plane, and every row is as
\* long as the first row.
Rectangular(contents) ==
  \A y \in DOMAIN contents :
    /\ Len(contents[y]) = Len(contents[1])
    /\ \A z \in DOMAIN contents[y] : Len(contents[y][z]) = Len(contents[1][1])

\* A first message that is not a world upload, or is one with no block at
\* all or with an unknown block character.
NotAnUpload(m) ==
  \/ m.kind # "world"
  \/ m.contents = <<>>
  \/ HasUnknownChar(m.contents)

\* The frame of camera position p in the session's world.
FrameOf(p) == draw(render(wmsg.world, wmsg.offset, p, debug).buf)

\* C1: when the first message of a session is not a valid world upload,
\* the session is over, no world was stored, and no camera was rendered
\* and no frame sent.
C1_NoRenderBeforeWorld ==
  (first # NoMsg /\ NotAnUpload(first)) =>
    /\ Ended
    /\ ~wmsg.set
    /\ nrecv = 1
    /\ cams = <<>>
    /\ handed = <<>>
    /\ result = <<>>

\* A session ended by an upload with an unknown block character.
C1_Witness ==
  /\ first # NoMsg
  /\ first.kind = "world"
  /\ first.contents # <<>>
  /\ HasUnknownChar(first.contents)
  /\ pc = "done"

\* C2: after a transport failure (a receive error, a failed send) no
\* further camera message is rendered and no further frame is passed to
\* the transport.
C2_TransportFailureEndsSession ==
  failedAt # <<>> => (Len(cams) = failedAt[1] /\ Len(handed) = failedAt[2])

\* C3: a world upload that is not rectangular is rejected: no world is
\* stored, the session ends and no frame is produced.
C3_NonRectangularRejected ==
  (first # NoMsg /\ first.kind = "world" /\ ~Rectangular(first.contents)) =>
    /\ ~wmsg.set
    /\ Ended
    /\ cams = <<>>
    /\ handed = <<>>

\* C5: camera messages are handled one at a time in arrival order: the
\* k-th frame passed to the transport is the frame of the k-th decoded
\* camera position, and a message is taken from the channel ("loop") only
\* when every camera decoded so far has had its frame passed on.
C5_FramesInArrivalOrder ==
  /\ Len(handed) <= Len(cams)
  /\ \A k \in 1..Len(handed) : handed[k] = FrameOf(cams[k])
  /\ pc \in {"loop", "done", "await_world", "panic"} => Len(handed) = Len(cams)
  /\ pc = "send" =>
       /\ Len(cams) = Len(handed) + 1
       /\ result = FrameOf(cams[Len(cams)])
  /\ pc = "render" => Len(cams) = Len(handed) + 1
  /\ delivered <= Len(handed)

\* Two different frames passed on for two different cameras, the handler
\* back at its receive.
C5_Witness ==
  /\ pc = "loop"
  /\ Len(handed) = 2
  /\ handed[1] # handed[2]
  /\ cams[1] # cams[2]

\* The world and offset the session's first message uploaded.
Uploaded == DecodeWorldMessage(first, debug).value

\* The frame of camera position p in the uploaded world.
UploadedFrameOf(p) == draw(render(Uploaded.world, Uploaded.offset, p, debug).buf)

\* A step of the loop that takes a message which yields no camera.
TakesUndecoded == pc = "loop" /\ nrecv' = nrecv + 1 /\ cams' = cams

\* Such a step produces no frame, does not end the session and leaves the
\* world and the offset as they were.
UndecodedHasNoEffect ==
  TakesUndecoded =>
    /\ pc' = "loop"
    /\ wmsg' = wmsg
    /\ result' = result
    /\ handed' = handed
    /\ delivered' = delivered

\* After the first ignored message every camera is rendered in the
\* uploaded world and its frame passed to the transport; the one exception
\* is a camera whose render does not return, at which the handler stays.
LaterCamerasAnswered ==
  /\ wmsg.set => wmsg = Uploaded
  /\ ignoredAt # <<>> =>
       /\ ignoredAt[1] = ignoredAt[2]
       /\ \A k \in (ignoredAt[1] + 1)..Len(handed) :
            handed[k] = UploadedFrameOf(cams[k])
       /\ pc \in {"loop", "done"} => Len(handed) = Len(cams)
       /\ pc = "send" =>
            /\ Len(cams) = Len(handed) + 1
            /\ result = UploadedFrameOf(cams[Len(cams)])
       /\ pc = "render" =>
            /\ Len(cams) = Len(handed) + 1
            /\ ~render(Uploaded.world, Uploaded.offset, cams[Len(cams)], debug).returns
       /\ pc \in {"loop", "send", "render", "done"}

=============================================================================
